---- MODULE Spec2Model ----
(***************************************************************************)
(* RealtimeVoiceClient (client/src/services/RealtimeVoiceClient.ts): the   *)
(* real-time voice session client.  One record per client instance holds   *)
(* the object's fields, the browser objects it has created (peer            *)
(* connections, data channels, capture streams, audio contexts, animation  *)
(* frame requests, timers) and the position of every connect() invocation  *)
(* that is suspended at an await.  The callbacks a client fires are       *)
(* consumed by useRealtimeVoice                                            *)
(* (client/src/components/Chat/VoiceConversation/VoiceConversation.tsx),   *)
(* whose React state is the variable hook.                                 *)
(*                                                                         *)
(* Browser objects are named by the connect() invocation that created      *)
(* them: invocation i creates capture stream i, peer connection i (whose   *)
(* senders carry the tracks of stream i), data channel i and audio         *)
(* context i.  0 stands for null.                                          *)
(***************************************************************************)
EXTENDS Naturals, Integers, Sequences, FiniteSets, TLC

\* number of connect() invocations made on one client
MaxConnects == 2

ClientIds == {1}
CallIds == 1..MaxConnects

VARIABLES clients, hook

vars == <<clients, hook>>

\* RealtimeVoiceConfig: the optional callbacks, and whether a greeting is set
PlainCallbacks ==
  { "onConnectionStateChange", "onTranscript", "onTranscriptChunk",
    "onUserTranscript", "onResponseStart", "onError", "onToolCall" }
LevelCallbacks    == { "onMicrophoneLevel", "onPlaybackLevel" }
SpectrumCallbacks == { "onMicrophoneSpectrum", "onPlaybackSpectrum" }

\* the callbacks useRealtimeVoice.connect passes to the client it constructs
HookCallbacks ==
  (PlainCallbacks \ { "onUserTranscript", "onToolCall" }) \cup LevelCallbacks

\* the configuration in which exactly the callbacks of set are supplied
Config(set, instructions) ==
  [ onConnectionStateChange |-> "onConnectionStateChange" \in set,
    onTranscript            |-> "onTranscript" \in set,
    onTranscriptChunk       |-> "onTranscriptChunk" \in set,
    onUserTranscript        |-> "onUserTranscript" \in set,
    onResponseStart         |-> "onResponseStart" \in set,
    onError                 |-> "onError" \in set,
    onToolCall              |-> "onToolCall" \in set,
    onMicrophoneLevel       |-> "onMicrophoneLevel" \in set,
    onMicrophoneSpectrum    |-> "onMicrophoneSpectrum" \in set,
    onPlaybackLevel         |-> "onPlaybackLevel" \in set,
    onPlaybackSpectrum      |-> "onPlaybackSpectrum" \in set,
    initialInstructions     |-> instructions ]

\* the configurations explored: no callback at all, the plain callbacks
\* without and with a greeting, each level callback and each spectrum
\* callback on its own, the hook's choice, and every callback together
Configs ==
  { Config({}, FALSE),
    Config(PlainCallbacks, FALSE),
    Config(PlainCallbacks, TRUE),
    Config(PlainCallbacks \cup { "onMicrophoneLevel" }, FALSE),
    Config(PlainCallbacks \cup { "onPlaybackLevel" }, FALSE),
    Config({ "onMicrophoneSpectrum" }, FALSE),
    Config({ "onPlaybackSpectrum", "onPlaybackLevel" }, FALSE),
    Config(HookCallbacks, TRUE),
    Config(PlainCallbacks \cup LevelCallbacks \cup SpectrumCallbacks, FALSE) }

\* the suspension points of connect()
AwaitStages ==
  { "fetchToken", "getUserMedia", "createOffer", "setLocalDescription",
    "negotiate", "responseText", "setRemoteDescription" }

NoOp == [ op |-> "new", threw |-> FALSE ]

\* field initialisers of the class and the constructor
NewClient(cfg) ==
  [ connectionState  |-> "disconnected",
    peerConnection   |-> 0,
    dataChannel      |-> 0,
    localStream      |-> 0,
    audioElement     |-> FALSE,
    srcObject        |-> 0,
    muted            |-> FALSE,
    paused           |-> TRUE,
    microphoneMuted  |-> FALSE,
    playbackMuted    |-> FALSE,
    audioContext     |-> 0,
    inputAnalyser    |-> 0,
    outputAnalyser   |-> 0,
    animationFrameId |-> 0,
    config           |-> cfg,
    \* browser objects
    pcState      |-> [i \in CallIds |-> "none"],
    iceState     |-> [i \in CallIds |-> "new"],
    localDesc    |-> [i \in CallIds |-> FALSE],
    remoteDesc   |-> [i \in CallIds |-> FALSE],
    dcState      |-> [i \in CallIds |-> "none"],
    trackState   |-> [i \in CallIds |-> "none"],
    senders      |-> [i \in CallIds |-> FALSE],
    trackEnabled |-> [i \in CallIds |-> TRUE],
    ctxState     |-> [i \in CallIds |-> "none"],
    rafScheduled |-> {},
    timers       |-> {},
    sent         |-> [i \in CallIds |-> <<>>],
    \* connect() invocations
    call         |-> [i \in CallIds |-> "idle"],
    target       |-> [i \in CallIds |-> 0],
    \* what the last step did: callbacks fired, resources released, in order
    events       |-> <<>>,
    released     |-> <<>>,
    lastOp       |-> NoOp ]

----------------------------------------------------------------------------
\* private helpers of the class

\* config.<name>(...) of a callback the caller may have left out
invoke(r, name, event) ==
  IF r.config[name] THEN [r EXCEPT !.events = Append(@, event)] ELSE r

updateConnectionState(r, state) ==
  invoke([r EXCEPT !.connectionState = state],
         "onConnectionStateChange", <<"onConnectionStateChange", state>>)

\* handleError() that also declares the session failed
handleErrorEndsSession(r, error) ==
  updateConnectionState(invoke(r, "onError", <<"onError", error>>), "error")

handleError(r, error) == invoke(r, "onError", <<"onError", error>>)

sendJson(r, data) ==
  IF r.dataChannel # 0 /\ r.dcState[r.dataChannel] = "open"
  THEN [r EXCEPT !.sent[r.dataChannel] = Append(@, data)]
  ELSE r

\* analyser.frequencyBinCount for fftSize = 128: the length of a spectrum
frequencyBinCount == 64

\* connect() that leaves the control channel for later
setupDataChannelDeferred(r, i) == r

setupDataChannel(r, i) ==
  [r EXCEPT !.dataChannel = i, !.dcState[i] = "connecting"]

\* stopPlayback() that also gives the session up
stopPlaybackEndsSession(r) ==
  updateConnectionState(IF r.audioElement THEN [r EXCEPT !.paused = TRUE] ELSE r,
                        "disconnected")

\* stopPlayback() that detaches the remote stream and does not put it back
stopPlaybackDetaches(r) ==
  IF r.audioElement THEN [r EXCEPT !.paused = TRUE, !.srcObject = 0] ELSE r

\* pause(); srcObject = null; srcObject = the stream it had
stopPlayback(r) ==
  IF r.audioElement
  THEN LET srcObject == r.srcObject
           r1 == [r EXCEPT !.paused = TRUE]
       IN IF srcObject # 0
          THEN [[r1 EXCEPT !.srcObject = 0] EXCEPT !.srcObject = srcObject]
          ELSE r1
  ELSE r

----------------------------------------------------------------------------
\* disconnect(): the teardown, statement by statement

\* an exception leaves the method: the statements after it do not run
Throw(r) == [r EXCEPT !.lastOp.threw = TRUE]
Then(r, F(_)) == IF r.lastOp.threw THEN r ELSE F(r)

\* a release call the step made
did(r, what) == [r EXCEPT !.released = Append(@, what)]

\* the calls disconnect() makes on its fields; a call on null is a TypeError
cancelFrame(r) ==
  did([r EXCEPT !.rafScheduled = @ \ {r.animationFrameId}, !.animationFrameId = 0],
      "cancelAnimationFrame")

closeContext(r) ==
  IF r.audioContext = 0 THEN Throw(r)
  ELSE did([r EXCEPT !.ctxState[r.audioContext] = "closed",
                     !.audioContext = 0, !.inputAnalyser = 0, !.outputAnalyser = 0],
           "audioContext.close")

stopTracks(r) ==
  IF r.localStream = 0 THEN Throw(r)
  ELSE did([r EXCEPT !.trackState[r.localStream] = "ended", !.localStream = 0],
           "track.stop")

\* the tracks of the senders (if addTrack gave it any) stopped, then close():
\* the transport's channel closes with it
closeTransport(r) ==
  IF r.peerConnection = 0 THEN Throw(r)
  ELSE LET p == r.peerConnection
       IN did([(IF r.senders[p]
                 THEN did([r EXCEPT !.trackState[p] = "ended"], "sender.track.stop")
                 ELSE r)
                 EXCEPT !.pcState[p] = "closed",
                        !.iceState[p] = "closed",
                        !.dcState[p] = IF @ = "none" THEN @ ELSE "closed",
                        !.peerConnection = 0],
              "peerConnection.close")

releaseElement(r) ==
  IF ~r.audioElement THEN Throw(r)
  ELSE did([r EXCEPT !.paused = TRUE, !.srcObject = 0, !.audioElement = FALSE],
           "audioElement.pause")

closeChannel(r) ==
  IF r.dataChannel = 0 THEN Throw(r)
  ELSE did([r EXCEPT !.dcState[r.dataChannel] = "closed", !.dataChannel = 0],
           "dataChannel.close")

\* the guarded statements of disconnect(), in source order
stopAnalysis(r)        == IF r.animationFrameId # 0 THEN cancelFrame(r) ELSE r
closeAudioContext(r)   == IF r.audioContext # 0 THEN closeContext(r) ELSE r
stopLocalTracks(r)     == IF r.localStream # 0 THEN stopTracks(r) ELSE r
closePeerConnection(r) == IF r.peerConnection # 0 THEN closeTransport(r) ELSE r
releaseAudioElement(r) == IF r.audioElement THEN releaseElement(r) ELSE r
closeDataChannel(r)    == IF r.dataChannel # 0 THEN closeChannel(r) ELSE r
reportDisconnected(r)  == did(updateConnectionState(r, "disconnected"), "report")

\* disconnect() that forgets to report the final state
disconnectWithoutReport(r) ==
  Then(Then(Then(Then(Then(
    stopAnalysis(r),
    closeAudioContext), stopLocalTracks), closePeerConnection),
    releaseAudioElement), closeDataChannel)

\* disconnect() that closes the control channel before the transport
disconnectChannelFirst(r) ==
  Then(Then(Then(Then(Then(Then(
    stopAnalysis(r),
    closeAudioContext), stopLocalTracks), closeDataChannel), closePeerConnection),
    releaseAudioElement), reportDisconnected)

disconnect(r) ==
  Then(Then(Then(Then(Then(Then(
    stopAnalysis(r),
    closeAudioContext), stopLocalTracks), closePeerConnection),
    releaseAudioElement), closeDataChannel), reportDisconnected)

----------------------------------------------------------------------------
\* audio analysis.  A level or spectrum callback is code of the application
\* and may call disconnect() before it returns; from names the callback that
\* does so in the step, NoCallback when none does

NoCallback == "none"

\* one sampling block of analyze: it reads the analyser anew (a TypeError when
\* disconnect() has set it to null) and invokes its callback
sampled(r, name, analyser, payload, from) ==
  IF ~r.config[name] THEN r
  ELSE IF analyser = 0 THEN Throw(r)
  ELSE LET r1 == invoke(r, name, <<name, payload>>)
       IN IF from = name THEN disconnect(r1) ELSE r1

\* one run of the analyze closure: the sampling blocks, then
\* requestAnimationFrame; an exception leaves the closure before it, so the
\* frame that ran is not followed by another
analyze(r, loop, from) ==
  LET r1 == IF r.inputAnalyser = 0 THEN r
            ELSE Then(sampled(r, "onMicrophoneSpectrum", r.inputAnalyser,
                              frequencyBinCount, from),
                      LAMBDA s : sampled(s, "onMicrophoneLevel", s.inputAnalyser,
                                         s.inputAnalyser, from))
      r2 == IF r1.lastOp.threw \/ r1.outputAnalyser = 0 THEN r1
            ELSE Then(sampled(r1, "onPlaybackSpectrum", r1.outputAnalyser,
                              frequencyBinCount, from),
                      LAMBDA s : sampled(s, "onPlaybackLevel", s.outputAnalyser,
                                         s.outputAnalyser, from))
  IN IF r2.lastOp.threw
     THEN [r2 EXCEPT !.rafScheduled = @ \ {loop}]
     ELSE [r2 EXCEPT !.rafScheduled = @ \cup {loop},
                     !.animationFrameId = loop]

\* analyze() runs once at once, inside the caller
startAudioAnalysis(r, from) == analyze(r, r.audioContext, from)

setupAudioAnalysis(r, i, from) ==
  LET r1 == [r EXCEPT !.audioContext = i, !.ctxState[i] = "running"]
  IN IF r1.localStream # 0
        /\ (r1.config.onMicrophoneLevel \/ r1.config.onMicrophoneSpectrum)
     THEN startAudioAnalysis([r1 EXCEPT !.inputAnalyser = i], from)
     ELSE r1

\* hasAudio: stream.getAudioTracks().length > 0
setupPlaybackAnalysis(r, stream, hasAudio, from) ==
  IF r.audioContext = 0 \/ (~r.config.onPlaybackLevel /\ ~r.config.onPlaybackSpectrum)
  THEN r
  ELSE IF ~hasAudio THEN r
  ELSE LET r1 == [r EXCEPT !.outputAnalyser = stream]
       IN IF r1.animationFrameId = 0 THEN startAudioAnalysis(r1, from) ELSE r1

----------------------------------------------------------------------------
\* connect(): the synchronous stretches between its awaits

\* what the token request can fulfil with: a JSON value with properties, or null
TokenData == { "object", "null" }

\* tokenData.proxy_url || 'https://api.openai.com': a string, or a truthy
\* value of another type, which has no replace()
BaseUrls == { "string", "not a string" }

\* catch that starts the attempt over instead of giving up
connectCatchRetries(r, i, error) ==
  [handleError(r, error) EXCEPT !.call[i] = "fetchToken"]

\* catch (error) { handleError; disconnect; throw }
connectCatch(r, i, error) ==
  [disconnect(handleError(r, error)) EXCEPT !.call[i] = "rejected"]

\* entry up to `await this.fetchToken()`
connectEnter(r, i) ==
  [updateConnectionState(r, "connecting") EXCEPT !.call[i] = "fetchToken"]

\* token obtained; up to `await getUserMedia()`.  Reading a property of
\* null is a TypeError inside the try
connectAfterToken(r, i, tokenData) ==
  IF tokenData = "null"
  THEN connectCatch(r, i, "TypeError")
  ELSE [r EXCEPT !.call[i] = "getUserMedia"]

\* stream i obtained; up to `await this.peerConnection.createOffer()`
\* An exception of the first analyze() run lands in the catch; so does
\* this.localStream.getTracks() when a callback's disconnect() has set
\* localStream to null, after the transport was constructed without senders
connectAfterMedia(r, i, from) ==
  LET r1 == [r EXCEPT !.trackState[i] = "live", !.trackEnabled[i] = TRUE,
                      !.localStream = i]
      r2 == IF r1.config.onMicrophoneSpectrum \/ r1.config.onMicrophoneLevel
               \/ r1.config.onPlaybackSpectrum \/ r1.config.onPlaybackLevel
            THEN setupAudioAnalysis(r1, i, from) ELSE r1
      r3 == [r2 EXCEPT !.peerConnection = i, !.pcState[i] = "open",
                       !.iceState[i] = "new"]
  IN IF r2.lastOp.threw
     THEN connectCatch([r2 EXCEPT !.lastOp.threw = FALSE], i, "TypeError")
     ELSE IF r3.localStream = 0
     THEN connectCatch(r3, i, "TypeError")
     ELSE [setupDataChannel([r3 EXCEPT !.senders[i] = TRUE], i)
             EXCEPT !.call[i] = "createOffer", !.target[i] = i]

\* offer created; `await this.peerConnection.setLocalDescription(offer)`
connectAfterOffer(r, i) ==
  IF r.peerConnection = 0
  THEN connectCatch(r, i, "TypeError")
  ELSE [r EXCEPT !.call[i] = "setLocalDescription", !.target[i] = r.peerConnection]

\* local description applied to the target; up to `await fetch(...)`
connectAfterLocalDescription(r, i, baseUrl) ==
  LET r1 == [r EXCEPT !.localDesc[r.target[i]] = TRUE]
  IN IF baseUrl = "string"
     THEN [r1 EXCEPT !.call[i] = "negotiate"]
     ELSE connectCatch(r1, i, "TypeError")

\* negotiation response received; `if (!response.ok) throw`, `await response.text()`
connectAfterNegotiate(r, i, ok) ==
  IF ok THEN [r EXCEPT !.call[i] = "responseText"]
  ELSE connectCatch(r, i, "Failed to connect")

\* answer text read; `await this.peerConnection.setRemoteDescription(...)`
connectAfterText(r, i) ==
  IF r.peerConnection = 0
  THEN connectCatch(r, i, "TypeError")
  ELSE [r EXCEPT !.call[i] = "setRemoteDescription", !.target[i] = r.peerConnection]

\* remote description applied; connect() returns
connectAfterRemoteDescription(r, i) ==
  [r EXCEPT !.remoteDesc[r.target[i]] = TRUE, !.call[i] = "resolved"]

----------------------------------------------------------------------------
\* event handlers installed by connect() and setupDataChannel()

\* peerConnection.oniceconnectionstatechange
oniceconnectionstatechange(r) ==
  IF r.peerConnection # 0 /\ r.iceState[r.peerConnection] = "connected"
  THEN updateConnectionState(r, "connected")
  ELSE IF r.peerConnection # 0 /\ r.iceState[r.peerConnection] = "failed"
  THEN handleError(updateConnectionState(r, "error"), "ICE connection failed")
  ELSE r

\* peerConnection.ontrack, fired by peer connection i; assigning srcObject
\* loads the element, which leaves it paused until autoplay starts it
ontrack(r, i, hasAudio, from) ==
  LET r1 == [r EXCEPT !.audioElement = TRUE, !.srcObject = i, !.paused = TRUE,
                      !.muted = r.playbackMuted]
  IN IF r1.audioContext # 0
        /\ (r1.config.onPlaybackLevel \/ r1.config.onPlaybackSpectrum)
     THEN setupPlaybackAnalysis(r1, i, hasAudio, from) ELSE r1

\* dataChannel.onopen of channel i
onopen(r, i) ==
  IF r.config.initialInstructions THEN [r EXCEPT !.timers = @ \cup {i}] ELSE r

\* the setTimeout callback armed by onopen
greetingTimeout(r) == sendJson(r, <<"response.create", "instructions">>)

\* dataChannel.onerror
onerror(r) == handleError(r, "channel error")

\* the optional callbacks of the configuration, as the client invokes them
onTranscript(r, text, role) == invoke(r, "onTranscript", <<"onTranscript", text, role>>)
onUserTranscript(r, text)   == invoke(r, "onUserTranscript", <<"onUserTranscript", text>>)
onTranscriptChunk(r, chunk) == invoke(r, "onTranscriptChunk", <<"onTranscriptChunk", chunk>>)
onResponseStart(r)          == invoke(r, "onResponseStart", <<"onResponseStart">>)
onToolCall(r, callId, name, args) ==
  invoke(r, "onToolCall", <<"onToolCall", callId, name, args>>)

\* a field the sender left out of the message
Undefined == "<undefined>"
\* JavaScript truthiness of a string-valued field
Truthy(x) == x # Undefined /\ x # ""

MessageTypes == { "session.created", "session.updated", "response.interrupted",
                  "response.cancelled", "error", "unknown.type" }

\* an inbound message: its type, item.role, its text field (delta / transcript)
\* and the fields of a tool call
Msg(type, role, text) ==
  [ type |-> type, role |-> role, text |-> text,
    call_id |-> Undefined, name |-> Undefined, arguments |-> Undefined ]
Bare(type) == Msg(type, Undefined, Undefined)
ToolCall(callId, name, arguments) ==
  [ Bare("response.function_call_arguments.done")
      EXCEPT !.call_id = callId, !.name = name, !.arguments = arguments ]

\* JSON.parse of an arguments string: the object it denotes, or a SyntaxError
WellFormedArguments == "{\"city\":\"Paris\"}"
JSONparse(text) ==
  IF text = WellFormedArguments
  THEN [ threw |-> FALSE, value |-> "{city: Paris}" ]
  ELSE [ threw |-> TRUE, value |-> Undefined ]

\* let args = {}; try { args = arguments ? JSON.parse(arguments) : {} } catch { log }
toolArguments(arguments) ==
  IF ~Truthy(arguments) THEN "{}"
  ELSE IF JSONparse(arguments).threw THEN "{}"
  ELSE JSONparse(arguments).value

\* case session.created / session.updated, promoting from every state
sessionCreatedAlways(r) == updateConnectionState(r, "connected")

\* case 'session.created' / 'session.updated'
sessionCreated(r) ==
  IF r.connectionState = "connecting"
  THEN updateConnectionState(r, "connected") ELSE r

\* case function_call_arguments.done, treating malformed arguments as an error
toolCallDoneReportsMalformed(r, message) ==
  IF r.config.onToolCall /\ Truthy(message.call_id) /\ Truthy(message.name)
  THEN IF Truthy(message.arguments) /\ JSONparse(message.arguments).threw
       THEN handleError(r, "malformed arguments")
       ELSE onToolCall(r, message.call_id, message.name, toolArguments(message.arguments))
  ELSE r

\* case 'response.function_call_arguments.done'
toolCallDone(r, message) ==
  IF r.config.onToolCall /\ Truthy(message.call_id) /\ Truthy(message.name)
  THEN onToolCall(r, message.call_id, message.name, toolArguments(message.arguments))
  ELSE r

handleRealtimeMessage(r, message) ==
  CASE message.type \in {"session.created", "session.updated"} -> sessionCreated(r)
    [] message.type = "conversation.item.created" ->
         IF message.role = "assistant" THEN onResponseStart(r)
         ELSE IF message.role = "user" /\ Truthy(message.text)
         THEN onTranscript(onUserTranscript(r, message.text), message.text, "user")
         ELSE r
    [] message.type = "conversation.item.input_audio_transcription.completed" ->
         IF Truthy(message.text)
         THEN onTranscript(onUserTranscript(r, message.text), message.text, "user")
         ELSE r
    [] message.type \in {"response.audio_transcript.delta",
                         "response.output_audio_transcript.delta"} ->
         IF Truthy(message.text) THEN onTranscriptChunk(r, message.text) ELSE r
    [] message.type \in {"response.audio_transcript.done",
                         "response.output_audio_transcript.done"} ->
         IF Truthy(message.text) THEN onTranscript(r, message.text, "assistant") ELSE r
    [] message.type = "response.function_call_arguments.done" -> toolCallDone(r, message)
    [] message.type \in {"response.cancelled", "response.interrupted"} -> stopPlayback(r)
    [] message.type = "error" -> handleError(r, "protocol")
    [] OTHER -> r

\* a frame on the channel: text that parses to a message, or text that does not
Frame(message)  == [ json |-> TRUE, value |-> message ]
MalformedFrame  == [ json |-> FALSE, value |-> Bare("") ]

\* the case labels of handleRealtimeMessage
KnownTypes ==
  { "session.created", "session.updated", "conversation.item.created",
    "conversation.item.input_audio_transcription.completed",
    "response.audio_transcript.delta", "response.output_audio_transcript.delta",
    "response.audio_transcript.done", "response.output_audio_transcript.done",
    "response.function_call_arguments.done",
    "input_audio_buffer.speech_started", "input_audio_buffer.speech_stopped",
    "response.cancelled", "response.interrupted", "error" }

\* onmessage that reports every frame it cannot handle
onmessageReportsUnhandled(r, data) ==
  IF data.json /\ data.value.type \in KnownTypes
  THEN handleRealtimeMessage(r, data.value)
  ELSE handleError(r, "unhandled frame")

\* dataChannel.onmessage: JSON.parse and dispatch inside try; the catch only logs
onmessage(r, data) ==
  IF data.json THEN handleRealtimeMessage(r, data.value) ELSE r

----------------------------------------------------------------------------
\* the public methods besides connect() and disconnect()

\* JSON.stringify of a tool result; undefined has no JSON text
Results == { "{ok:true}", Undefined }
JSONstringify(result) == IF result = Undefined THEN Undefined ELSE "json:" \o result

\* toggleMicrophone() that flips the flag and leaves the tracks alone
toggleMicrophoneFlagOnly(r, enabled) == [r EXCEPT !.microphoneMuted = ~enabled]

toggleMicrophone(r, enabled) ==
  LET r1 == [r EXCEPT !.microphoneMuted = ~enabled]
  IN IF r1.localStream # 0
     THEN [r1 EXCEPT !.trackEnabled[r1.localStream] = enabled] ELSE r1

togglePlayback(r, enabled) ==
  LET r1 == [r EXCEPT !.playbackMuted = ~enabled]
  IN IF r1.audioElement THEN [r1 EXCEPT !.muted = ~enabled] ELSE r1

UserMessage(text) == <<"conversation.item.create", "message", "user", text>>
ToolResultMessage(callId, output) ==
  <<"conversation.item.create", "function_call_output", callId, output>>
ResponseCreate == <<"response.create">>

\* sendText() that triggers the response before it creates the user message
sendTextTriggerFirst(r, text) ==
  IF r.dataChannel = 0 \/ r.dcState[r.dataChannel] # "open"
  THEN Throw(r)
  ELSE onTranscript(sendJson(sendJson(r, ResponseCreate), UserMessage(text)), text, "user")

sendText(r, text) ==
  IF r.dataChannel = 0 \/ r.dcState[r.dataChannel] # "open"
  THEN Throw(r)
  ELSE onTranscript(sendJson(sendJson(r, UserMessage(text)), ResponseCreate), text, "user")

\* dataChannel.send on the channel the client holds
send(r, data) == [r EXCEPT !.sent[r.dataChannel] = Append(@, data)]

\* sendToolResult() that drops the result silently when the channel is not open
sendToolResultSilent(r, callId, result) ==
  IF r.dataChannel = 0 \/ r.dcState[r.dataChannel] # "open"
  THEN r
  ELSE send(send(r, ToolResultMessage(callId, JSONstringify(result))), ResponseCreate)

\* sendToolResult() that sends the result without triggering a response
sendToolResultOnly(r, callId, result) ==
  IF r.dataChannel = 0 \/ r.dcState[r.dataChannel] # "open"
  THEN Throw(r)
  ELSE send(r, ToolResultMessage(callId, JSONstringify(result)))

sendToolResult(r, callId, result) ==
  IF r.dataChannel = 0 \/ r.dcState[r.dataChannel] # "open"
  THEN Throw(r)
  ELSE send(send(r, ToolResultMessage(callId, JSONstringify(result))), ResponseCreate)

----------------------------------------------------------------------------
\* useRealtimeVoice: the React state fed by the client's callbacks

\* the clients one hook constructs: useRealtimeVoice.connect makes a new one
\* each time it runs
MaxClients == 2
HookClientIds == 1..MaxClients

\* useState / useRef initial values; closure[c] is the transcript seen by the
\* handleTranscript that client c was constructed with; notified, updated and
\* caught record what the last step handed to onError and onTranscriptUpdate
NewHook ==
  [ connectionState |-> "disconnected",
    isMicMuted      |-> FALSE,
    isSpeakerMuted  |-> FALSE,
    transcript      |-> <<>>,
    currentChunk    |-> "",
    voiceClientRef  |-> 0,
    awaiting        |-> {},
    closure         |-> [c \in HookClientIds |-> <<>>],
    notified        |-> <<>>,
    updated         |-> <<>>,
    caught          |-> FALSE ]

\* handleTranscript that puts the new entry in front
handleTranscriptPrepends(h, c, text, role) ==
  [h EXCEPT !.transcript = <<[role |-> role, text |-> text]>> \o @,
            !.currentChunk = "",
            !.updated = Append(@, Append(h.closure[c], [role |-> role, text |-> text]))]

\* onTranscript of client c: handleTranscript
handleTranscript(h, c, text, role) ==
  [h EXCEPT !.transcript = Append(@, [role |-> role, text |-> text]),
            !.currentChunk = "",
            !.updated = Append(@, Append(h.closure[c], [role |-> role, text |-> text]))]

\* the handler the hook installed in client c for one callback invocation
onCallback(h, c, e) ==
  CASE e[1] = "onConnectionStateChange" -> [h EXCEPT !.connectionState = e[2]]
    [] e[1] = "onTranscript"      -> handleTranscript(h, c, e[2], e[3])
    [] e[1] = "onTranscriptChunk" -> [h EXCEPT !.currentChunk = e[2]]
    [] e[1] = "onResponseStart"   -> [h EXCEPT !.currentChunk = ""]
    [] e[1] = "onError"           -> [h EXCEPT !.notified = Append(@, e[2])]
    [] OTHER -> h

RECURSIVE Deliver(_, _, _)
Deliver(h, c, events) ==
  IF events = <<>> THEN h ELSE Deliver(onCallback(h, c, Head(events)), c, Tail(events))

\* the error client c handed to handleError in this step
Rejection(r) ==
  LET errors == SelectSeq(r.events, LAMBDA e : e[1] = "onError")
  IN IF errors = <<>> THEN Undefined ELSE errors[1][2]

\* catch (error) of useRealtimeVoice.connect: setConnectionState('error'); onError?.(error)
connectFailed(h, r) ==
  [h EXCEPT !.connectionState = "error",
            !.notified = Append(@, Rejection(r)),
            !.caught = TRUE]

\* `await client.connect()` of the hook continues when the promise settles
connectSettled(h, c, r) ==
  IF c \notin h.awaiting \/ r.call[1] \notin {"resolved", "rejected"} THEN h
  ELSE LET h1 == [h EXCEPT !.awaiting = @ \ {c}]
       IN IF r.call[1] = "rejected" THEN connectFailed(h1, r) ELSE h1

\* a step starts with nothing handed to the caller's callbacks yet
Rendered(h) == [h EXCEPT !.notified = <<>>, !.updated = <<>>, !.caught = FALSE]

----------------------------------------------------------------------------
\* the state machine

\* every step starts with an empty callback log and names the operation it runs
Begin(r, op) ==
  [r EXCEPT !.events = <<>>, !.released = <<>>, !.lastOp = [op |-> op, threw |-> FALSE]]

Init ==
  /\ \E cfg \in Configs : clients = [c \in ClientIds |-> NewClient(cfg)]
  /\ hook = NewHook

\* the callbacks client c fired in this step run the hook's handlers
HookStep(c) ==
  hook' = connectSettled(Deliver(Rendered(hook), c, clients'[c].events), c, clients'[c])

NextCall(r) == CHOOSE i \in CallIds : r.call[i] = "idle" /\ \A j \in 1..(i-1) : r.call[j] # "idle"

Connect(c) ==
  /\ \E i \in CallIds : clients[c].call[i] = "idle"
  /\ LET i == NextCall(clients[c])
     IN clients' = [clients EXCEPT ![c] = connectEnter(Begin(@, "connect"), i)]
  /\ HookStep(c)

Disconnect(c) ==
  /\ clients' = [clients EXCEPT ![c] = disconnect(Begin(@, "disconnect"))]
  /\ HookStep(c)

FetchTokenDone(c, i, tokenData) ==
  /\ clients[c].call[i] = "fetchToken"
  /\ clients' = [clients EXCEPT ![c] =
       connectAfterToken(Begin(@, "resume"), i, tokenData)]
  /\ HookStep(c)

GetUserMediaDone(c, i) ==
  /\ clients[c].call[i] = "getUserMedia"
  /\ clients' = [clients EXCEPT ![c] =
       connectAfterMedia(Begin(@, "resume"), i, NoCallback)]
  /\ HookStep(c)

CreateOfferDone(c, i) ==
  /\ clients[c].call[i] = "createOffer"
  /\ clients[c].pcState[i] = "open"
  /\ clients' = [clients EXCEPT ![c] = connectAfterOffer(Begin(@, "resume"), i)]
  /\ HookStep(c)

SetLocalDescriptionDone(c, i, baseUrl) ==
  /\ clients[c].call[i] = "setLocalDescription"
  \* the browser applies an offer only to the open connection that created it
  /\ clients[c].target[i] = i
  /\ clients[c].pcState[i] = "open"
  /\ clients' = [clients EXCEPT ![c] =
       connectAfterLocalDescription(Begin(@, "resume"), i, baseUrl)]
  /\ HookStep(c)

NegotiateDone(c, i, ok) ==
  /\ clients[c].call[i] = "negotiate"
  /\ clients' = [clients EXCEPT ![c] = connectAfterNegotiate(Begin(@, "resume"), i, ok)]
  /\ HookStep(c)

ResponseTextDone(c, i) ==
  /\ clients[c].call[i] = "responseText"
  /\ clients' = [clients EXCEPT ![c] = connectAfterText(Begin(@, "resume"), i)]
  /\ HookStep(c)

SetRemoteDescriptionDone(c, i) ==
  /\ clients[c].call[i] = "setRemoteDescription"
  /\ LET p == clients[c].target[i]
     IN /\ clients[c].pcState[p] = "open"
        /\ clients[c].localDesc[p]
        /\ ~clients[c].remoteDesc[p]
  /\ clients' = [clients EXCEPT ![c] = connectAfterRemoteDescription(Begin(@, "resume"), i)]
  /\ HookStep(c)

\* the awaited operation rejects: control enters the catch block
AwaitRejected(c, i) ==
  /\ clients[c].call[i] \in AwaitStages
  /\ clients' = [clients EXCEPT ![c] = connectCatch(Begin(@, "resume"), i, @.call[i])]
  /\ HookStep(c)

IceTransitions ==
  { <<"new", "connected">>, <<"new", "failed">>,
    <<"connected", "disconnected">>, <<"disconnected", "connected">>,
    <<"disconnected", "failed">> }

IceChange(c, i, s) ==
  /\ clients[c].pcState[i] = "open"
  /\ clients[c].localDesc[i] /\ clients[c].remoteDesc[i]
  /\ <<clients[c].iceState[i], s>> \in IceTransitions
  /\ clients' = [clients EXCEPT ![c] =
       oniceconnectionstatechange([Begin(@, "ice") EXCEPT !.iceState[i] = s])]
  /\ HookStep(c)

ChannelOpen(c, i) ==
  /\ clients[c].dcState[i] = "connecting"
  /\ clients[c].pcState[i] = "open"
  /\ clients[c].iceState[i] = "connected"
  /\ clients' = [clients EXCEPT ![c] =
       onopen([Begin(@, "open") EXCEPT !.dcState[i] = "open"], i)]
  /\ HookStep(c)

\* the remote side (or the SCTP association) closes channel i while its
\* transport stays open; setupDataChannel installs no onclose handler, so no
\* code of the client runs
ChannelClose(c, i) ==
  /\ clients[c].dcState[i] = "open"
  /\ clients[c].pcState[i] = "open"
  /\ clients' = [clients EXCEPT ![c] =
       [Begin(@, "channelclose") EXCEPT !.dcState[i] = "closed"]]
  /\ HookStep(c)

OnTrack(c, i, hasAudio) ==
  /\ clients[c].pcState[i] = "open"
  /\ clients[c].remoteDesc[i]
  /\ clients' = [clients EXCEPT ![c] =
       ontrack(Begin(@, "track"), i, hasAudio, NoCallback)]
  /\ HookStep(c)

\* the browser starts an element that has autoplay set and a stream attached
Autoplay(c) ==
  /\ clients[c].audioElement /\ clients[c].srcObject # 0 /\ clients[c].paused
  /\ clients' = [clients EXCEPT ![c] = [Begin(@, "autoplay") EXCEPT !.paused = FALSE]]
  /\ HookStep(c)

Message(c, i, type) ==
  /\ clients[c].dcState[i] = "open"
  /\ clients' = [clients EXCEPT ![c] = onmessage(Begin(@, type), Frame(Bare(type)))]
  /\ HookStep(c)

GreetingTimer(c, i) ==
  /\ i \in clients[c].timers
  /\ clients' = [clients EXCEPT ![c] =
       greetingTimeout([Begin(@, "timer") EXCEPT !.timers = @ \ {i}])]
  /\ HookStep(c)

Tick(c, loop) ==
  /\ loop \in clients[c].rafScheduled
  /\ clients' = [clients EXCEPT ![c] = analyze(Begin(@, "tick"), loop, NoCallback)]
  /\ HookStep(c)

Next ==
  \E c \in ClientIds :
    \/ Connect(c)
    \/ Disconnect(c)
    \/ Autoplay(c)
    \/ \E i \in CallIds :
         \/ \E tokenData \in TokenData : FetchTokenDone(c, i, tokenData)
         \/ GetUserMediaDone(c, i)
         \/ CreateOfferDone(c, i)
         \/ \E baseUrl \in BaseUrls : SetLocalDescriptionDone(c, i, baseUrl)
         \/ \E ok \in BOOLEAN : NegotiateDone(c, i, ok)
         \/ ResponseTextDone(c, i)
         \/ SetRemoteDescriptionDone(c, i)
         \/ AwaitRejected(c, i)
         \/ \E s \in {"connected", "disconnected", "failed"} : IceChange(c, i, s)
         \/ ChannelOpen(c, i)
         \/ ChannelClose(c, i)
         \/ \E hasAudio \in BOOLEAN : OnTrack(c, i, hasAudio)
         \/ \E type \in MessageTypes : Message(c, i, type)
         \/ GreetingTimer(c, i)
         \/ Tick(c, i)

Spec == Init /\ [][Next]_vars

----------------------------------------------------------------------------
\* the session in use: the application sends, mutes and receives transcripts

\* messages one channel carries outbound, and entries the transcript holds
MaxSent == 4
MaxTranscript == 2

Texts == { "hello", "hi" }
ToolCallIds == { "call_1", "call_2" }

\* frames of the transcript protocol, one unparseable frame among them
SessionFrames ==
  { Frame(Msg("conversation.item.created", "assistant", Undefined)),
    Frame(Msg("response.audio_transcript.delta", Undefined, "Hel")),
    Frame(Msg("response.audio_transcript.delta", Undefined, "")),
    Frame(Msg("response.audio_transcript.done", Undefined, "Hello")),
    Frame(Msg("response.audio_transcript.done", Undefined, "")),
    Frame(Msg("response.audio_transcript.done", Undefined, Undefined)),
    Frame(Msg("conversation.item.input_audio_transcription.completed", Undefined, "hi")),
    Frame(Bare("response.cancelled")),
    Frame(ToolCall("call_1", "get_weather", WellFormedArguments)),
    Frame(ToolCall("call_1", "get_weather", Undefined)),
    Frame(ToolCall("call_2", "lookup", "{city")),
    Frame(ToolCall(Undefined, "get_weather", WellFormedArguments)),
    MalformedFrame }

\* the channel the client holds has room for n more messages
Room(r, n) ==
  r.dataChannel # 0 /\ r.dcState[r.dataChannel] = "open"
    => Len(r.sent[r.dataChannel]) + n <= MaxSent

SendText(c, text) ==
  /\ Room(clients[c], 2)
  /\ Len(hook.transcript) < MaxTranscript
  /\ clients' = [clients EXCEPT ![c] = sendText(Begin(@, "sendText"), text)]
  /\ HookStep(c)

SendToolResult(c, callId, result) ==
  /\ Room(clients[c], 2)
  /\ clients' = [clients EXCEPT ![c] = sendToolResult(Begin(@, "sendToolResult"), callId, result)]
  /\ HookStep(c)

ToggleMicrophone(c, enabled) ==
  /\ clients' = [clients EXCEPT ![c] = toggleMicrophone(Begin(@, "toggleMicrophone"), enabled)]
  /\ HookStep(c)

TogglePlayback(c, enabled) ==
  /\ clients' = [clients EXCEPT ![c] = togglePlayback(Begin(@, "togglePlayback"), enabled)]
  /\ HookStep(c)

Receive(c, i, data) ==
  /\ clients[c].dcState[i] = "open"
  /\ Len(hook.transcript) < MaxTranscript
  /\ clients' = [clients EXCEPT ![c] = onmessage(Begin(@, "message"), data)]
  /\ HookStep(c)

ChannelError(c, i) ==
  /\ clients[c].dcState[i] = "open"
  /\ clients' = [clients EXCEPT ![c] = onerror(Begin(@, "channelerror"))]
  /\ HookStep(c)

\* useRealtimeVoice.connect constructs a client and calls connect() on it once
Once(c) == clients[c].call[1] = "idle"

\* the lifecycle of a client that is connected once
OnceNext ==
  \E c \in ClientIds :
    \/ (Once(c) /\ Connect(c))
    \/ Disconnect(c)
    \/ Autoplay(c)
    \/ \E i \in CallIds :
         \/ \E tokenData \in TokenData : FetchTokenDone(c, i, tokenData)
         \/ GetUserMediaDone(c, i)
         \/ CreateOfferDone(c, i)
         \/ \E baseUrl \in BaseUrls : SetLocalDescriptionDone(c, i, baseUrl)
         \/ \E ok \in BOOLEAN : NegotiateDone(c, i, ok)
         \/ ResponseTextDone(c, i)
         \/ SetRemoteDescriptionDone(c, i)
         \/ AwaitRejected(c, i)
         \/ \E s \in {"connected", "disconnected", "failed"} : IceChange(c, i, s)
         \/ ChannelOpen(c, i)
         \/ ChannelClose(c, i)
         \/ \E hasAudio \in BOOLEAN : OnTrack(c, i, hasAudio)
         \/ \E type \in MessageTypes : Message(c, i, type)
         \/ GreetingTimer(c, i)
         \/ Tick(c, i)

SendNext ==
  \E c \in ClientIds :
    \/ \E text \in Texts : SendText(c, text)
    \/ \E callId \in ToolCallIds, result \in Results : SendToolResult(c, callId, result)

MuteNext ==
  \E c \in ClientIds, enabled \in BOOLEAN :
    \/ ToggleMicrophone(c, enabled)
    \/ TogglePlayback(c, enabled)

ReceiveNext ==
  \E c \in ClientIds, i \in CallIds :
    \/ \E data \in SessionFrames : Receive(c, i, data)
    \/ ChannelError(c, i)

\* a level or spectrum callback of the application ends the session from
\* inside a tick
TickDisconnecting(c, loop, from) ==
  /\ loop \in clients[c].rafScheduled
  /\ clients[c].config[from]
  /\ IF from \in {"onMicrophoneSpectrum", "onMicrophoneLevel"}
     THEN clients[c].inputAnalyser # 0 ELSE clients[c].outputAnalyser # 0
  /\ clients' = [clients EXCEPT ![c] =
       analyze(Begin(@, "tickDisconnecting"), loop, from)]
  /\ HookStep(c)

\* the callback from ran in the step that ended in r
Ran(r, from) == \E k \in DOMAIN r.events : r.events[k][1] = from

\* ... from inside the first analyze() run of connect()
GetUserMediaDoneDisconnecting(c, i, from) ==
  /\ clients[c].call[i] = "getUserMedia"
  /\ clients' = [clients EXCEPT ![c] =
       connectAfterMedia(Begin(@, "resumeDisconnecting"), i, from)]
  /\ Ran(clients'[c], from)
  /\ HookStep(c)

\* ... from inside the first analyze() run of ontrack, whose exception
\* nothing catches
OnTrackDisconnecting(c, i, hasAudio, from) ==
  /\ clients[c].pcState[i] = "open"
  /\ clients[c].remoteDesc[i]
  /\ clients' = [clients EXCEPT ![c] =
       ontrack(Begin(@, "trackDisconnecting"), i, hasAudio, from)]
  /\ Ran(clients'[c], from)
  /\ HookStep(c)

SamplingNext ==
  \E c \in ClientIds, i \in CallIds, from \in LevelCallbacks \cup SpectrumCallbacks :
    \/ TickDisconnecting(c, i, from)
    \/ GetUserMediaDoneDisconnecting(c, i, from)
    \/ \E hasAudio \in BOOLEAN : OnTrackDisconnecting(c, i, hasAudio, from)

\* the application's level callbacks may call disconnect()
SpecSampling == Init /\ [][OnceNext \/ SamplingNext]_vars

\* the application sends text and tool results
SpecSend == Init /\ [][OnceNext \/ SendNext]_vars

\* the application mutes and unmutes
SpecMute == Init /\ [][OnceNext \/ MuteNext]_vars

\* the service streams transcripts
SpecTranscript == Init /\ [][OnceNext \/ ReceiveNext]_vars

\* the configuration useRealtimeVoice.connect passes to every client
HookConfig == Config(HookCallbacks, TRUE)

\* a mounted hook that has not constructed a client yet; clients[c] is the
\* c-th client it will construct
HookInit ==
  /\ clients = [c \in HookClientIds |-> NewClient(HookConfig)]
  /\ hook = NewHook

\* useRealtimeVoice.connect: return when the current client is Connected, else
\* construct a client, store it in the ref and call connect() on it
HookConnect ==
  /\ ~(hook.voiceClientRef # 0
        /\ clients[hook.voiceClientRef].connectionState = "connected")
  /\ \E c \in HookClientIds :
       /\ clients[c].call[1] = "idle"
       /\ \A d \in 1..(c-1) : clients[d].call[1] # "idle"
       /\ clients' = [clients EXCEPT ![c] = connectEnter(Begin(@, "connect"), 1)]
       /\ hook' = Deliver([Rendered(hook) EXCEPT !.voiceClientRef = c,
                                                 !.awaiting = @ \cup {c},
                                                 !.closure[c] = hook.transcript],
                          c, clients'[c].events)

\* useRealtimeVoice.disconnect
HookDisconnect ==
  /\ hook.voiceClientRef # 0
  /\ LET c == hook.voiceClientRef
     IN /\ clients' = [clients EXCEPT ![c] = disconnect(Begin(@, "disconnect"))]
        /\ hook' = [Deliver(Rendered(hook), c, clients'[c].events)
                      EXCEPT !.voiceClientRef = 0]

\* VoiceConversation.handleConnect: the phone button
handleConnect ==
  IF hook.connectionState = "connected" THEN HookDisconnect ELSE HookConnect

\* useRealtimeVoice.toggleMicrophone
HookToggleMicrophone ==
  /\ hook.voiceClientRef # 0
  /\ LET c == hook.voiceClientRef
         newMutedState == ~hook.isMicMuted
     IN /\ clients' = [clients EXCEPT ![c] =
              toggleMicrophone(Begin(@, "toggleMicrophone"), ~newMutedState)]
        /\ hook' = [Rendered(hook) EXCEPT !.isMicMuted = newMutedState]

\* useRealtimeVoice.toggleSpeaker
HookToggleSpeaker ==
  /\ hook.voiceClientRef # 0
  /\ LET c == hook.voiceClientRef
         newMutedState == ~hook.isSpeakerMuted
     IN /\ clients' = [clients EXCEPT ![c] =
              togglePlayback(Begin(@, "togglePlayback"), ~newMutedState)]
        /\ hook' = [Rendered(hook) EXCEPT !.isSpeakerMuted = newMutedState]

\* the user works the hook while every client it built goes through its
\* handshake; media, timers, sampling ticks and inbound messages are left to
\* the specifications of the single client
HookNext ==
  \/ HookConnect
  \/ HookDisconnect
  \/ handleConnect
  \/ HookToggleMicrophone
  \/ HookToggleSpeaker
  \/ \E c \in HookClientIds, i \in CallIds :
       \/ \E tokenData \in TokenData : FetchTokenDone(c, i, tokenData)
       \/ GetUserMediaDone(c, i)
       \/ CreateOfferDone(c, i)
       \/ \E baseUrl \in BaseUrls : SetLocalDescriptionDone(c, i, baseUrl)
       \/ \E ok \in BOOLEAN : NegotiateDone(c, i, ok)
       \/ ResponseTextDone(c, i)
       \/ SetRemoteDescriptionDone(c, i)
       \/ AwaitRejected(c, i)
       \/ \E s \in {"connected", "disconnected", "failed"} : IceChange(c, i, s)
       \/ ChannelOpen(c, i)

SpecHook == HookInit /\ [][HookNext]_vars

\* the operation invocation i awaits completes or fails
AwaitCompletes(c, i) ==
  \/ \E tokenData \in TokenData : FetchTokenDone(c, i, tokenData)
  \/ GetUserMediaDone(c, i)
  \/ CreateOfferDone(c, i)
  \/ \E baseUrl \in BaseUrls : SetLocalDescriptionDone(c, i, baseUrl)
  \/ \E ok \in BOOLEAN : NegotiateDone(c, i, ok)
  \/ ResponseTextDone(c, i)
  \/ SetRemoteDescriptionDone(c, i)
  \/ AwaitRejected(c, i)

\* every awaited external operation eventually completes or fails; nothing is
\* assumed about ICE events, channel events or inbound messages
SpecSettles ==
  Init /\ [][OnceNext]_vars
       /\ \A c \in ClientIds, i \in CallIds : WF_vars(AwaitCompletes(c, i))

----------------------------------------------------------------------------
\* vocabulary of the properties

\* a connect() invocation settles in this step
Rejects(r, r2, i)  == r.call[i] \in AwaitStages /\ r2.call[i] = "rejected"
Resolves(r, r2, i) == r.call[i] \in AwaitStages /\ r2.call[i] = "resolved"
\* this step resumes invocation i after an await
Resumes(r, r2, i)  == r.call[i] \in AwaitStages /\ r2.call[i] # r.call[i]

TrackLive(r, i)     == r.trackState[i] = "live"
ContextOpen(r, i)   == r.ctxState[i] = "running"
TransportOpen(r, i) == r.pcState[i] = "open"
ChannelLive(r, i)   == r.dcState[i] \in {"connecting", "open"}

\* nothing the client ever created is still active
Released(r) ==
  /\ r.rafScheduled = {}
  /\ \A i \in CallIds :
       ~TrackLive(r, i) /\ ~ContextOpen(r, i) /\ ~TransportOpen(r, i) /\ ~ChannelLive(r, i)

\* nothing invocation i created is still active
ReleasedBy(r, i) ==
  /\ i \notin r.rafScheduled
  /\ ~TrackLive(r, i) /\ ~ContextOpen(r, i) /\ ~TransportOpen(r, i) /\ ~ChannelLive(r, i)

\* ICE connectivity of the client's current transport has been confirmed
ConnectivityConfirmed(r) ==
  /\ r.peerConnection # 0
  /\ \/ r.iceState[r.peerConnection] \in {"connected", "disconnected"}
     \/ r.dcState[r.peerConnection] = "open"

\* the connection-state transitions the state machine lists
ListedTransitions ==
  { <<"disconnected", "connecting">>, <<"connecting", "connected">>,
    <<"connecting", "error">>, <<"connected", "error">>,
    <<"connecting", "disconnected">>, <<"connected", "disconnected">> }

----------------------------------------------------------------------------
\* C1: resource-leak invariant.  Once disconnect() has returned, with every
\* connect() invocation settled before it, no capture track is live, no
\* analysis context is open, no sampling continuation is scheduled, no
\* transport is open and no control channel is open.
C1_NoLeakAfterDisconnect ==
  \A c \in ClientIds :
    LET r == clients[c]
    IN (r.lastOp.op = "disconnect" /\ \A i \in CallIds : r.call[i] \notin AwaitStages)
         => Released(r)

\* C2: disconnect() is total and idempotent.  From every state it returns
\* without throwing, leaves connectionState Disconnected, and a second
\* disconnect() right after it changes nothing.
C2_DisconnectTotalIdempotent ==
  \A c \in ClientIds :
    LET r == clients[c]
    IN r.lastOp.op = "disconnect"
         => /\ ~r.lastOp.threw
            /\ r.connectionState = "disconnected"
            /\ [disconnect(Begin(r, "disconnect")) EXCEPT !.released = r.released] = r

\* C2 witness: disconnect() has just returned while a connect() is suspended
C2_Witness ==
  \E c \in ClientIds :
    /\ clients[c].lastOp.op = "disconnect"
    /\ \E i \in CallIds : clients[c].call[i] \in {"negotiate", "setRemoteDescription"}
    /\ \E i \in CallIds : clients[c].pcState[i] = "closed"

\* C3: disconnect() cancels a suspended connect().  When invocation i resumes
\* while the state is Disconnected (disconnect() ran during its await), the
\* client afterwards holds no capture stream, no transport and no channel,
\* and the state is still Disconnected.
C3_DisconnectCancelsConnect ==
  [][\A c \in ClientIds : \A i \in CallIds :
       LET r == clients[c]  r2 == clients'[c]
       IN (r.connectionState = "disconnected" /\ Resumes(r, r2, i))
            => /\ r2.localStream = 0 /\ r2.peerConnection = 0 /\ r2.dataChannel = 0
               /\ r2.connectionState = "disconnected"]_vars

\* C4: overlapping connect() calls never construct a second transport: every
\* un-closed transport, live capture stream and live channel is the one the
\* client currently holds.
C4_SingleTransport ==
  \A c \in ClientIds : \A i \in CallIds :
    LET r == clients[c]
    IN /\ TransportOpen(r, i) => r.peerConnection = i
       /\ TrackLive(r, i)     => r.localStream = i
       /\ ChannelLive(r, i)   => r.dataChannel = i

\* C5: connect() while Connected is a no-op: the state stays Connected, no
\* invocation starts fetching a credential, and transport, channel and
\* capture stream are unchanged.
C5_ConnectWhileConnectedNoOp ==
  [][\A c \in ClientIds :
       LET r == clients[c]  r2 == clients'[c]
       IN (r.connectionState = "connected" /\ r2.lastOp.op = "connect")
            => /\ r2.connectionState = "connected"
               /\ r2.events = <<>>
               /\ r2.call = r.call
               /\ r2.peerConnection = r.peerConnection
               /\ r2.dataChannel = r.dataChannel
               /\ r2.localStream = r.localStream]_vars

\* C6: when a step of connect() fails, connectionState is Error at the moment
\* the promise rejects.
C6_ErrorStateOnReject ==
  [][\A c \in ClientIds : \A i \in CallIds :
       Rejects(clients[c], clients'[c], i) => clients'[c].connectionState = "error"]_vars

\* C7: when a step of connect() fails, everything that invocation had
\* acquired is released by the time the promise rejects.
C7_ReleasedOnReject ==
  [][\A c \in ClientIds : \A i \in CallIds :
       Rejects(clients[c], clients'[c], i) => ReleasedBy(clients'[c], i)]_vars

\* C8: connect() settles in one of two ways: it resolves at a moment when
\* connectionState is Connected, or it rejects with the error that caused the
\* failure; it never resolves while the state is still Connecting.
\* the errors that can end the stretch of connect() resumed from stage: the
\* rejection of the awaited operation, or what the stretch itself throws
Triggering(stage) == { stage, "TypeError", "Failed to connect" }

C8_ResolvesOnlyConnected ==
  [][\A c \in ClientIds : \A i \in CallIds :
       LET r == clients[c]  r2 == clients'[c]
       IN /\ Resolves(r, r2, i) => r2.connectionState = "connected"
          /\ Rejects(r, r2, i) /\ r.config.onError
               => Rejection(r2) \in Triggering(r.call[i])]_vars

\* C9: connectionState becomes Connected only once connectivity of the
\* current transport has been confirmed.
C9_ConnectedOnlyAfterConnectivity ==
  [][\A c \in ClientIds :
       LET r == clients[c]  r2 == clients'[c]
       IN (r.connectionState # "connected" /\ r2.connectionState = "connected")
            => ConnectivityConfirmed(r2)]_vars

\* C10: every change of connectionState is one of the listed transitions.
C10_OnlyListedTransitions ==
  [][\A c \in ClientIds :
       LET r == clients[c]  r2 == clients'[c]
       IN r.connectionState # r2.connectionState
            => <<r.connectionState, r2.connectionState>> \in ListedTransitions]_vars

----------------------------------------------------------------------------
\* vocabulary of the session properties

\* the client holds a control channel and it is open
HeldChannelOpen(r) == r.dataChannel # 0 /\ r.dcState[r.dataChannel] = "open"

\* the state of a client apart from the record of the last step
Settled(r) == [r EXCEPT !.events = <<>>, !.released = <<>>, !.lastOp = NoOp]

\* what the step put on the channel the client held before it
Outbound(r, r2) ==
  IF r.dataChannel = 0 THEN <<>>
  ELSE SubSeq(r2.sent[r.dataChannel], Len(r.sent[r.dataChannel]) + 1,
              Len(r2.sent[r.dataChannel]))

\* the step put nothing on any channel
NothingSent(r, r2) == r2.sent = r.sent

\* the step left the transport and the channel as they were
TransportUntouched(r, r2) ==
  /\ r2.peerConnection = r.peerConnection /\ r2.dataChannel = r.dataChannel
  /\ r2.pcState = r.pcState /\ r2.iceState = r.iceState /\ r2.dcState = r.dcState

----------------------------------------------------------------------------
\* C11: sendText fails whenever connectionState is not Connected or the
\* control channel is not open, also when the channel is open but the state
\* is Connecting or Error; then nothing is sent and no transcript callback fires.
C11_SendTextRequiresConnected ==
  [][\A c \in ClientIds, text \in Texts :
       LET r == clients[c]  r2 == clients'[c]
       IN SendText(c, text) /\ (r.connectionState # "connected" \/ ~HeldChannelOpen(r))
          => r2.lastOp.threw /\ NothingSent(r, r2) /\ r2.events = <<>>]_vars

\* C12: sendText(t) while Connected with an open channel puts exactly two
\* messages on the channel, the user message carrying t and then the response
\* trigger, and has invoked the transcript callback (the configuration's, when
\* it supplies one) exactly once with (t, user) when it returns, which makes
\* the hook append the user entry.
C12_SendTextPairAndTranscript ==
  [][\A c \in ClientIds, text \in Texts :
       LET r == clients[c]  r2 == clients'[c]
       IN SendText(c, text) /\ r.connectionState = "connected" /\ HeldChannelOpen(r)
          => /\ ~r2.lastOp.threw
             /\ Outbound(r, r2) = << <<"conversation.item.create", "message", "user", text>>,
                                     <<"response.create">> >>
             /\ \A i \in CallIds : i # r.dataChannel => r2.sent[i] = r.sent[i]
             /\ r2.events = IF r.config.onTranscript
                            THEN << <<"onTranscript", text, "user">> >> ELSE <<>>
             /\ r.config.onTranscript
                  => hook'.transcript = Append(hook.transcript, [role |-> "user", text |-> text])]_vars

C12_Witness ==
  \E c \in ClientIds, text \in Texts :
    LET r == clients[c]
    IN /\ r.lastOp = [op |-> "sendText", threw |-> FALSE]
       /\ r.connectionState = "connected" /\ HeldChannelOpen(r)
       /\ r.events = << <<"onTranscript", text, "user">> >>
       /\ Len(r.sent[r.dataChannel]) >= 2
       /\ r.sent[r.dataChannel][Len(r.sent[r.dataChannel])] = <<"response.create">>

\* C13: sendToolResult while the control channel is absent or not open fails
\* and has no side effect: nothing sent, no callback, connectionState and
\* every resource unchanged.
C13_ToolResultNotReadyNoEffect ==
  [][\A c \in ClientIds, callId \in ToolCallIds, result \in Results :
       LET r == clients[c]  r2 == clients'[c]
       IN SendToolResult(c, callId, result) /\ ~HeldChannelOpen(r)
          => /\ r2.lastOp.threw
             /\ r2.events = <<>>
             /\ Settled(r2) = Settled(r)
             /\ Rendered(hook') = Rendered(hook)]_vars

\* a call made while the client holds a channel that has not opened yet
C13_Witness ==
  \E c \in ClientIds :
    LET r == clients[c]
    IN /\ r.lastOp = [op |-> "sendToolResult", threw |-> TRUE]
       /\ r.dataChannel # 0 /\ r.dcState[r.dataChannel] = "connecting"

\* C14: sendToolResult with an open channel sends exactly two messages in
\* order, the tool result carrying the call id and the serialized result, then
\* the response trigger; the trigger never goes out first or alone.
C14_ToolResultThenTrigger ==
  [][\A c \in ClientIds, callId \in ToolCallIds, result \in Results :
       LET r == clients[c]  r2 == clients'[c]
       IN SendToolResult(c, callId, result) /\ HeldChannelOpen(r)
          => /\ ~r2.lastOp.threw
             /\ Len(Outbound(r, r2)) = 2
             /\ Outbound(r, r2)[1] = <<"conversation.item.create", "function_call_output",
                                       callId, JSONstringify(result)>>
             /\ Outbound(r, r2)[2] = <<"response.create">>
             /\ \A i \in CallIds : i # r.dataChannel => r2.sent[i] = r.sent[i]]_vars

C14_Witness ==
  \E c \in ClientIds, callId \in ToolCallIds :
    LET r == clients[c]
    IN /\ r.lastOp = [op |-> "sendToolResult", threw |-> FALSE]
       /\ HeldChannelOpen(r)
       /\ Len(r.sent[r.dataChannel]) >= 2
       /\ r.sent[r.dataChannel][Len(r.sent[r.dataChannel]) - 1] =
            <<"conversation.item.create", "function_call_output", callId,
              JSONstringify("{ok:true}")>>
       /\ r.sent[r.dataChannel][Len(r.sent[r.dataChannel])] = <<"response.create">>

\* C15: toggleMicrophone(enabled) and togglePlayback(enabled) are local: the
\* mute flag becomes not enabled, every track of the capture stream the client
\* holds (the playback element, if there is one) reflects it, nothing is sent
\* and nothing else changes, in every connection state.
C15_TogglesAreLocal ==
  [][\A c \in ClientIds, enabled \in BOOLEAN :
       LET r == clients[c]  r2 == clients'[c]
       IN /\ ToggleMicrophone(c, enabled)
             => /\ r2.microphoneMuted = ~enabled
                /\ r.localStream # 0 => r2.trackEnabled[r.localStream] = enabled
                /\ Settled(r2) = [Settled(r) EXCEPT !.microphoneMuted = r2.microphoneMuted,
                                                    !.trackEnabled = r2.trackEnabled]
                /\ \A i \in CallIds : i # r.localStream => r2.trackEnabled[i] = r.trackEnabled[i]
                /\ r2.events = <<>> /\ ~r2.lastOp.threw /\ Rendered(hook') = Rendered(hook)
          /\ TogglePlayback(c, enabled)
             => /\ r2.playbackMuted = ~enabled
                /\ r.audioElement => r2.muted = ~enabled
                /\ Settled(r2) = [Settled(r) EXCEPT !.playbackMuted = r2.playbackMuted,
                                                    !.muted = r2.muted]
                /\ ~r.audioElement => r2.muted = r.muted
                /\ r2.events = <<>> /\ ~r2.lastOp.threw /\ Rendered(hook') = Rendered(hook)]_vars

\* a microphone toggle that reached a live track, in a state other than Connected
C15_Witness ==
  \E c \in ClientIds :
    LET r == clients[c]
    IN /\ r.lastOp = [op |-> "toggleMicrophone", threw |-> FALSE]
       /\ r.microphoneMuted /\ r.localStream # 0
       /\ TrackLive(r, r.localStream) /\ ~r.trackEnabled[r.localStream]
       /\ r.connectionState # "connected"

\* the step invoked the error callback
ErrorReported(r2) == \E k \in DOMAIN r2.events : r2.events[k][1] = "onError"

\* C16: every done message that ends a run of delta messages appends exactly
\* one assistant TranscriptEntry (the turn's final transcript) and leaves the
\* StreamingChunk empty, also when its transcript field is empty or missing
\* (for a client configured with the transcript callback, as the hook's is).
C16_DoneFinalizesOneEntry ==
  [][\A c \in ClientIds, i \in CallIds, text \in {"Hello", "", Undefined} :
       Receive(c, i, Frame(Msg("response.audio_transcript.done", Undefined, text)))
         /\ clients[c].config.onTranscript
       => /\ Len(hook'.transcript) = Len(hook.transcript) + 1
          /\ SubSeq(hook'.transcript, 1, Len(hook.transcript)) = hook.transcript
          /\ hook'.transcript[Len(hook'.transcript)].role = "assistant"
          /\ Truthy(text) => hook'.transcript[Len(hook'.transcript)].text = text
          /\ hook'.currentChunk = ""]_vars

\* C17: response-interrupted or response-cancelled, received while Connected
\* with the control channel open, stops playback and leaves connectionState
\* Connected, the transport un-closed and the channel open, so that a sendText
\* issued right after succeeds and transmits its two messages.
C17_InterruptKeepsSession ==
  [][\A c \in ClientIds, i \in CallIds :
       LET r == clients[c]  r2 == clients'[c]
       IN /\ \/ Message(c, i, "response.interrupted")
             \/ Receive(c, i, Frame(Bare("response.cancelled")))
          /\ r.connectionState = "connected" /\ HeldChannelOpen(r)
          => /\ r.audioElement => r2.paused
             /\ r2.connectionState = "connected"
             /\ TransportUntouched(r, r2)
             /\ r2.pcState[r2.peerConnection] = "open" /\ HeldChannelOpen(r2)
             /\ r2.events = <<>>
             /\ \A text \in Texts :
                  LET r3 == sendText(Begin(r2, "sendText"), text)
                  IN /\ ~r3.lastOp.threw
                     /\ Outbound(r2, r3) = << <<"conversation.item.create", "message", "user", text>>,
                                              <<"response.create">> >>]_vars

\* the interruption left the element paused on its stream; the session is still up
C17_Witness ==
  \E c \in ClientIds :
    LET r == clients[c]
    IN /\ r.lastOp.op = "response.interrupted"
       /\ r.audioElement /\ r.paused /\ r.srcObject # 0
       /\ r.connectionState = "connected" /\ HeldChannelOpen(r)

\* C18: an inbound message whose type is not in the vocabulary is a no-op in
\* every state: no callback, no exception, nothing sent, connectionState, mute
\* flags and every resource unchanged.
C18_UnknownTypeIsNoOp ==
  [][\A c \in ClientIds, i \in CallIds :
       LET r == clients[c]  r2 == clients'[c]
       IN Message(c, i, "unknown.type")
          => /\ r2.events = <<>> /\ ~r2.lastOp.threw
             /\ Settled(r2) = Settled(r)
             /\ Rendered(hook') = Rendered(hook)]_vars

C18_Witness ==
  \E c \in ClientIds :
    LET r == clients[c]
    IN /\ r.lastOp = [op |-> "unknown.type", threw |-> FALSE]
       /\ r.events = <<>>
       /\ r.connectionState = "error"
       /\ hook.transcript # <<>>

\* C19: no error is swallowed: a failed connect step, an ICE failure, a
\* control-channel error event, a remote in-band error and an inbound frame
\* that is not valid JSON each invoke the error callback at least once (for
\* a client configured with an error callback).
C19_NoErrorSwallowed ==
  [][\A c \in ClientIds, i \in CallIds :
       LET r == clients[c]  r2 == clients'[c]
       IN /\ r.config.onError
          /\ \/ Rejects(r, r2, i)
             \/ IceChange(c, i, "failed")
             \/ ChannelError(c, i)
             \/ Message(c, i, "error")
             \/ Receive(c, i, MalformedFrame)
          => ErrorReported(r2)]_vars

\* C20: the control channel and the transport share one lifecycle: between
\* steps the client holds a channel exactly when it holds a transport, and a
\* channel is live exactly when the transport that created it is open.
C20_ChannelSharesTransportLifecycle ==
  \A c \in ClientIds :
    LET r == clients[c]
    IN /\ (r.dataChannel # 0) <=> (r.peerConnection # 0)
       /\ r.dataChannel = r.peerConnection
       /\ \A i \in CallIds : ChannelLive(r, i) <=> TransportOpen(r, i)

----------------------------------------------------------------------------
\* vocabulary of the teardown and sampling properties

\* the release order the contract fixes
TeardownOrder ==
  << "cancelAnimationFrame", "audioContext.close", "track.stop", "sender.track.stop",
     "peerConnection.close", "audioElement.pause", "dataChannel.close", "report" >>

Rank(what) == CHOOSE k \in DOMAIN TeardownOrder : TeardownOrder[k] = what

InOrder(log) ==
  \A j, k \in DOMAIN log : j < k => Rank(log[j]) < Rank(log[k])

\* the step made this release call
Did(r, what) == \E k \in DOMAIN r.released : r.released[k] = what

\* C21: disconnect() releases in the fixed order: cancel the pending tick,
\* close the analysis context, stop the capture tracks, stop the senders'
\* tracks, close the transport, pause and detach the playback element, close
\* the control channel, and only then report Disconnected; every resource that
\* is present is released, and no later step comes before an earlier one.
C21_TeardownInOrder ==
  [][\A c \in ClientIds :
       LET r == clients[c]  r2 == clients'[c]
       IN Disconnect(c)
          => /\ InOrder(r2.released)
             /\ r2.released[Len(r2.released)] = "report"
             /\ Did(r2, "cancelAnimationFrame")  <=> r.animationFrameId # 0
             /\ Did(r2, "audioContext.close")    <=> r.audioContext # 0
             /\ Did(r2, "track.stop")            <=> r.localStream # 0
             /\ Did(r2, "sender.track.stop")     <=> r.peerConnection # 0
             /\ Did(r2, "peerConnection.close")  <=> r.peerConnection # 0
             /\ Did(r2, "audioElement.pause")    <=> r.audioElement
             /\ Did(r2, "dataChannel.close")     <=> r.dataChannel # 0]_vars

\* a disconnect() that had every kind of resource to release
C21_Witness ==
  \E c \in ClientIds :
    /\ clients[c].lastOp.op = "disconnect"
    /\ clients[c].released = TeardownOrder

\* C22: the sampling loop stops completely on disconnect(): once disconnect()
\* has returned, from wherever it was called (also from inside a level
\* callback that runs within a tick), no sampling continuation is scheduled,
\* so no further tick runs.
C22_SamplingStopsOnDisconnect ==
  \A c \in ClientIds :
    LET r == clients[c]
    IN Did(r, "report") => r.rafScheduled = {}

\* C23: the sampling loop is a single task per client: at most one sampling
\* continuation is scheduled at any moment, whatever the order of analysis
\* setup, remote-track events and connect()/disconnect() calls.
C23_SingleSamplingLoop ==
  \A c \in ClientIds : Cardinality(clients[c].rafScheduled) <= 1

\* C24: an inbound in-band error message is surfaced through exactly one
\* error-callback invocation (none when the configuration supplies no error
\* callback) and does not close the session: connectionState,
\* transport, control channel, capture stream and sampling loop are unchanged.
C24_InBandErrorKeepsSession ==
  [][\A c \in ClientIds, i \in CallIds :
       LET r == clients[c]  r2 == clients'[c]
       IN Message(c, i, "error")
          => /\ Len(r2.events) = (IF r.config.onError THEN 1 ELSE 0)
             /\ r.config.onError => r2.events[1][1] = "onError"
             /\ ~r2.lastOp.threw /\ r2.released = <<>>
             /\ r2.connectionState = r.connectionState
             /\ TransportUntouched(r, r2)
             /\ r2.localStream = r.localStream /\ r2.trackState = r.trackState
             /\ r2.rafScheduled = r.rafScheduled /\ r2.audioContext = r.audioContext
             /\ Settled(r2) = Settled(r)]_vars

\* an error message arrived in a running session and the session is still up
C24_Witness ==
  \E c \in ClientIds :
    LET r == clients[c]
    IN /\ r.lastOp.op = "error" /\ ErrorReported(r)
       /\ r.connectionState = "connected" /\ HeldChannelOpen(r)
       /\ r.localStream # 0 /\ TrackLive(r, r.localStream)
       /\ r.rafScheduled # {}

\* C25: a function-call-arguments-done message emits exactly one
\* ToolInvocation with its callId and name (to the tool-call callback, none
\* when the configuration supplies no such callback); when its arguments are not valid
\* JSON the invocation still goes out, with an empty argument object, no error
\* callback fires, nothing is thrown, connectionState and channel are unchanged.
C25_ToolCallSurvivesMalformedArguments ==
  [][\A c \in ClientIds, i \in CallIds, callId \in ToolCallIds,
        arguments \in {"{\"city\":\"Paris\"}", "{city", Undefined} :
       LET r == clients[c]  r2 == clients'[c]
       IN Receive(c, i, Frame(ToolCall(callId, "lookup", arguments)))
            \/ Receive(c, i, Frame(ToolCall(callId, "get_weather", arguments)))
          => /\ Len(r2.events) = (IF r.config.onToolCall THEN 1 ELSE 0)
             /\ r.config.onToolCall
                  => /\ r2.events[1][1] = "onToolCall" /\ r2.events[1][2] = callId
                     /\ r2.events[1][3] \in {"lookup", "get_weather"}
                     /\ arguments = "{city" => r2.events[1][4] = "{}"
                     /\ arguments = "{\"city\":\"Paris\"}" => r2.events[1][4] = "{city: Paris}"
             /\ ~ErrorReported(r2) /\ ~r2.lastOp.threw
             /\ Settled(r2) = Settled(r)]_vars

\* the invocation emitted for the message whose arguments were malformed
C25_Witness ==
  \E c \in ClientIds :
    LET r == clients[c]
    IN /\ r.lastOp = [op |-> "message", threw |-> FALSE]
       /\ r.events = << <<"onToolCall", "call_2", "lookup", "{}">> >>
       /\ r.connectionState = "connected" /\ HeldChannelOpen(r)

\* C27: session-created / session-updated changes connectionState only when
\* it is Connecting (to Connected, reported to the connection-state callback
\* when one is supplied); in Disconnected, Connected or Error it leaves the
\* state unchanged and fires no connection-state callback.
C27_SessionCreatedOnlyPromotesConnecting ==
  [][\A c \in ClientIds, i \in CallIds, type \in {"session.created", "session.updated"} :
       LET r == clients[c]  r2 == clients'[c]
       IN Message(c, i, type)
          => IF r.connectionState = "connecting"
             THEN /\ r2.connectionState = "connected"
                  /\ r2.events = IF r.config.onConnectionStateChange
                                 THEN << <<"onConnectionStateChange", "connected">> >>
                                 ELSE <<>>
             ELSE /\ r2.connectionState = r.connectionState
                  /\ r2.events = <<>>
                  /\ Settled(r2) = Settled(r)]_vars

\* the message arrived while the state was Error and changed nothing
C27_Witness ==
  \E c \in ClientIds :
    LET r == clients[c]
    IN /\ r.lastOp.op \in {"session.created", "session.updated"}
       /\ r.connectionState = "error" /\ r.events = <<>>

\* the create-tool-result messages carrying callId among the messages of a channel
ResultsFor(sent, callId) ==
  { k \in 1..Len(sent) :
      /\ Len(sent[k]) = 4 /\ sent[k][1] = "conversation.item.create"
      /\ sent[k][2] = "function_call_output" /\ sent[k][3] = callId }

\* C26: a ToolInvocation is answered at most once: for every callId at most
\* one create-tool-result message carrying it is ever sent on the control
\* channel during a session, whatever sendToolResult calls the caller makes.
C26_ToolResultAtMostOnce ==
  \A c \in ClientIds, i \in CallIds, callId \in ToolCallIds :
    Cardinality(ResultsFor(clients[c].sent[i], callId)) <= 1

\* the update-response-instructions messages among the messages of a channel
Greetings(sent) ==
  { k \in 1..Len(sent) : sent[k] = <<"response.create", "instructions">> }

\* C28: with a greeting configured, one update-response-instructions message
\* is sent per session, after the channel's open event and after the delay;
\* an expiry that finds the channel not open sends nothing, throws nothing
\* and reports nothing.
C28_GreetingOncePerSession ==
  /\ \A c \in ClientIds, i \in CallIds :
       /\ Cardinality(Greetings(clients[c].sent[i])) <= 1
       /\ Greetings(clients[c].sent[i]) # {} => clients[c].config.initialInstructions
  /\ \A c \in ClientIds :
       LET r == clients[c]
       IN r.lastOp.op = "timer" /\ ~HeldChannelOpen(r)
          => ~r.lastOp.threw /\ r.events = <<>>

\* C29: barge-in keeps the media subscription: an interrupted / cancelled
\* response pauses the playback element and leaves it attached to the remote
\* source it had (detached and reattached within the step); transport and
\* control channel are neither closed nor recreated.
C29_BargeInKeepsSubscription ==
  [][\A c \in ClientIds, i \in CallIds,
        type \in {"response.cancelled", "response.interrupted"} :
       LET r == clients[c]  r2 == clients'[c]
       IN Message(c, i, type)
          => /\ r2.audioElement = r.audioElement
             /\ r2.srcObject = r.srcObject
             /\ r.audioElement => r2.paused
             /\ r2.peerConnection = r.peerConnection /\ r2.pcState = r.pcState
             /\ r2.dataChannel = r.dataChannel /\ r2.dcState = r.dcState
             /\ r2.released = <<>>]_vars

\* a cancelled response left the element paused and attached to its remote
\* stream (C17's witness is the same state after response.interrupted)
C29_Witness ==
  \E c \in ClientIds :
    LET r == clients[c]
    IN /\ r.lastOp.op = "response.cancelled"
       /\ r.audioElement /\ r.paused /\ r.srcObject # 0
       /\ TransportOpen(r, r.peerConnection) /\ HeldChannelOpen(r)

\* C30: connect() keeps the contract order: the microphone is requested only
\* after the credential was obtained, the transport is created only once the
\* microphone stream is held, and the control channel with its message handler
\* exists before the offer goes to the negotiation endpoint.
C30_ConnectOrder ==
  [][\A c \in ClientIds, i \in CallIds :
       LET r == clients[c]  r2 == clients'[c]
       IN /\ r.call[i] # "getUserMedia" /\ r2.call[i] = "getUserMedia"
             => r.call[i] = "fetchToken" /\ ~r2.lastOp.threw
          /\ r.pcState[i] = "none" /\ r2.pcState[i] # "none"
             => /\ r.call[i] = "getUserMedia"
                /\ r2.localStream = i /\ TrackLive(r2, i)
          /\ r2.call[i] \in {"negotiate", "responseText", "setRemoteDescription"}
             => r2.dcState[i] # "none" /\ r2.pcState[i] # "none"
          /\ r.dcState[i] # "open" /\ r2.dcState[i] = "open"
             => r.dcState[i] = "connecting"]_vars

\* the offer is on its way while the control channel waits to open
C30_Witness ==
  \E c \in ClientIds, i \in CallIds :
    LET r == clients[c]
    IN /\ r.call[i] = "negotiate" /\ r.lastOp.op = "resume"
       /\ r.dcState[i] = "connecting" /\ r.dataChannel = i
       /\ r.localStream = i /\ TrackLive(r, i) /\ TransportOpen(r, i)

\* C32: microphone mute consistency: whenever the client holds a live capture
\* stream, its tracks are enabled exactly when microphoneMuted is false, for
\* every order of toggleMicrophone, connect and disconnect calls.
C32_MuteFlagMatchesTracks ==
  \A c \in ClientIds :
    LET r == clients[c]
    IN r.localStream # 0 /\ TrackLive(r, r.localStream)
       => (r.trackEnabled[r.localStream] <=> ~r.microphoneMuted)

\* C34: whenever connectionState is Error the client holds no live capture
\* track, no open transport and no open control channel.
C34_ErrorHoldsNothing ==
  \A c \in ClientIds :
    LET r == clients[c]
    IN r.connectionState = "error"
       => /\ ~(r.localStream # 0 /\ TrackLive(r, r.localStream))
          /\ ~(r.peerConnection # 0 /\ TransportOpen(r, r.peerConnection))
          /\ ~HeldChannelOpen(r)

\* C39: a greeting timer armed by one session never acts on another: when
\* disconnect() closed channel i before its timer expired, the timer sends
\* nothing on the control channel of a later session.
C39_GreetingTimerKeepsToItsChannel ==
  [][\A c \in ClientIds, i \in CallIds :
       GreetingTimer(c, i) /\ clients[c].dcState[i] = "closed"
       => \A j \in CallIds \ {i} : clients'[c].sent[j] = clients[c].sent[j]]_vars

\* C40: connect() always settles: when every awaited external operation
\* eventually completes or fails, every connect() call eventually resolves or
\* rejects, without waiting for ICE connectivity or a session message.
C40_ConnectSettles ==
  \A c \in ClientIds, i \in CallIds :
    (clients[c].call[i] \in AwaitStages)
      ~> (clients[c].call[i] \in {"resolved", "rejected"})

\* a connect() call resolved while its transport had no ICE verdict yet
C40_Witness ==
  \E c \in ClientIds, i \in CallIds :
    LET r == clients[c]
    IN /\ r.call[i] = "resolved" /\ r.lastOp.op = "resume"
       /\ r.peerConnection = i /\ r.iceState[i] = "new" /\ r.dcState[i] = "connecting"

\* the transcript entries of the finalized-transcript events of a step, in order
Finalized(events) ==
  LET fin == SelectSeq(events, LAMBDA e : e[1] = "onTranscript")
  IN [k \in 1..Len(fin) |-> [role |-> fin[k][3], text |-> fin[k][2]]]

\* C31: the hook's transcript is append-only: every finalized transcript event
\* extends the sequence by one entry at the end, in processing order, and no
\* earlier entry is modified, reordered or removed.
C31_TranscriptAppendOnly ==
  [][\A c \in ClientIds :
       clients'[c] # clients[c]
       => hook'.transcript = hook.transcript \o Finalized(clients'[c].events)]_vars

\* a second entry was appended behind the first
C31_Witness ==
  \E c \in ClientIds :
    /\ Len(hook.transcript) = 2
    /\ Len(Finalized(clients[c].events)) = 1
    /\ hook.transcript[2] = Finalized(clients[c].events)[1]

\* C38: each time a finalized entry is produced, onTranscriptUpdate receives
\* the complete transcript so far: all entries finalized earlier, in order,
\* followed by the new entry.
C38_UpdateCarriesWholeTranscript ==
  hook.updated # <<>> => hook.updated[Len(hook.updated)] = hook.transcript

\* C33: the hook's mute indicator never claims muted while the device is
\* live: whenever isMicMuted is true and the hook's current client holds a
\* capture stream, that stream's tracks are disabled.
C33_MutedIndicatorMeansSilent ==
  hook.isMicMuted /\ hook.voiceClientRef # 0
  => LET r == clients[hook.voiceClientRef]
     IN r.localStream # 0 /\ TrackLive(r, r.localStream)
        => ~r.trackEnabled[r.localStream]

\* C35: the hook never orphans a client: when its connect() replaces the
\* client reference, the previous client has released all its resources.
C35_NoOrphanedClient ==
  [][HookConnect /\ hook.voiceClientRef # 0
     => Released(clients[hook.voiceClientRef])]_vars

\* C36: the connection state published by the hook is that of its client
\* after every event, also after a failed connect().
C36_HookStateTracksClient ==
  hook.voiceClientRef # 0
  => hook.connectionState = clients[hook.voiceClientRef].connectionState

\* C37: a failed connect attempt made through the hook notifies the
\* caller-supplied onError exactly once, with the triggering error.
C37_FailedConnectNotifiesOnce ==
  hook.caught => Len(hook.notified) = 1

====
